---- MODULE Spec2Model ----
(***************************************************************************)
(* A model of the IPA re-signing service of main.go: the analysis cache    *)
(* (ipaCache, guarded by ipaCacheLock), the per-UUID working directories   *)
(* under outputDir, and the two handlers analyzeIPAHandler and             *)
(* resignHandler, run by concurrent request goroutines.                    *)
(*                                                                         *)
(* Identifiers (uuid.New().String()) are abstracted to positive integers;  *)
(* 0 stands for the empty form value of ipa_uuid.  Form values are read    *)
(* where the handler reads them (c.PostForm / c.FormFile).  Goroutines are *)
(* interchangeable, so a request takes the first free slot.  last and seen *)
(* are history variables: they record finished requests and change nothing *)
(* of what the handlers do.                                                *)
(***************************************************************************)
EXTENDS Integers, Sequences, FiniteSets, TLC

\* ---------------------------------------------------------------- bounds
NumProcs == 2
MaxAnalyses == 2
MaxResigns == 1
\* Resign requests of the service that is only asked to sign
MaxRepeats == 2
\* Analyze requests of the client that signs again
MaxPriorAnalyses == 1
\* Download requests
MaxDownloads == 1

Procs == 1..NumProcs
EmptyID == 0
\* a value of ipa_uuid that is no UUID of the index
UnknownID == -1

\* ---------------------------------------------------------------- inputs
URLs == {"u1", "u2"}
FormURLs == URLs \cup {""}
FormBundleIDs == {"", "ov.bundle"}
FormAppNames == {"", "OvName"}
FormPasswords == {"", "secret"}
\* the files resignHandler and analyzeIPAHandler keep in a directory
ArtifactNames == {"source.ipa", "resigned.ipa", "manifest.plist", "cert.p12",
                  "profile.mobileprovision"}
\* the :filename segment of a download path
PathFilenames == ArtifactNames \cup {"notes.txt"}

\* A plist value is a pair <<type, value>>; only "string" survives .(string)
PAbsent == <<"absent", "">>
PString(s) == <<"string", s>>
\* a value of another plist type, which .(string) refuses
PInteger == <<"integer", "1">>
IsString(v) == v[1] = "string"

\* The body a remote server can deliver for an IPA URL
ArchNoPlist == [kind |-> "zip", plist |-> "none",
                CFBundleIdentifier |-> PAbsent,
                CFBundleDisplayName |-> PAbsent,
                CFBundleName |-> PAbsent]
ArchFull == [kind |-> "zip", plist |-> "ok",
             CFBundleIdentifier |-> PString("com.example.app"),
             CFBundleDisplayName |-> PString("Display"),
             CFBundleName |-> PString("Internal")]
\* an archive whose Info.plist is no plist
ArchUnparsable == [ArchNoPlist EXCEPT !.plist = "unparsable"]
\* the archives with an Info.plist, by what its three keys hold
PlistDocuments ==
    {[kind |-> "zip", plist |-> "ok", CFBundleIdentifier |-> b,
      CFBundleDisplayName |-> d, CFBundleName |-> n] :
        b \in {PAbsent, PInteger, PString(""), PString("com.example.app")},
        d \in {PAbsent, PInteger, PString(""), PString("Display")},
        n \in {PAbsent, PInteger, PString(""), PString("Internal")}}
Documents == PlistDocuments \cup {ArchNoPlist, ArchUnparsable}
\* the archive each remote server holds
Servers == [url \in URLs |-> IF url = "u1" THEN ArchFull ELSE ArchNoPlist]

\* A file that io.Copy left incomplete: not a readable zip
Truncated == [kind |-> "truncated", plist |-> "none",
              CFBundleIdentifier |-> PAbsent,
              CFBundleDisplayName |-> PAbsent,
              CFBundleName |-> PAbsent]
NoFile == [kind |-> "nofile"]

\* ---------------------------------------------------------------- state
VARIABLES
    ipaCache,      \* map[string]IPAInfo: function from the stored UUIDs
    rlockers,      \* ipaCacheLock: goroutines holding the read lock
    wlocker,       \* ipaCacheLock: goroutine holding the write lock, or 0
    outputDir,     \* ./output: function from UUID to the files of its directory
    allocated,     \* number of UUIDs generated so far
    pc,            \* position of each request goroutine
    loc,           \* handler locals of each goroutine
    nreq,          \* number of requests started, of each kind
    last,          \* history: the request that finished last, with its response
    seen,          \* history: the request the sequential client made before it
    remote         \* the archive behind each URL

vars == <<ipaCache, rlockers, wlocker, outputDir, allocated,
          pc, loc, nreq, last, seen, remote>>

\* the body http.Get(url) receives
Remote(url) == remote[url]

\* ---------------------------------------------------------------- files
EmptyDir == [source |-> NoFile, cert |-> NoFile, profile |-> NoFile,
             resigned |-> NoFile, manifest |-> NoFile]

\* os.MkdirAll(workDir): creates the directory, keeps an existing one
MkdirAll(d, id) ==
    IF id \in DOMAIN d THEN d
    ELSE [i \in DOMAIN d \cup {id} |-> IF i = id THEN EmptyDir ELSE d[i]]

\* os.RemoveAll(workDir)
RemoveAll(d, id) == [i \in DOMAIN d \ {id} |-> d[i]]

\* writing one named file of an existing directory
WriteFile(d, id, name, content) ==
    IF id \in DOMAIN d THEN [d EXCEPT ![id][name] = content] ELSE d

FileExists(d, id, name) == id \in DOMAIN d /\ d[id][name] # NoFile

\* the field of a directory that holds the file of a name
FieldOf(filename) ==
    CASE filename = "source.ipa" -> "source"
      [] filename = "resigned.ipa" -> "resigned"
      [] filename = "manifest.plist" -> "manifest"
      [] filename = "cert.p12" -> "cert"
      [] filename = "profile.mobileprovision" -> "profile"

\* os.Stat(filepath.Join(outputDir, uuid, filename)) finds a file
StatFinds(d, id, filename) ==
    filename \in ArtifactNames /\ FileExists(d, id, FieldOf(filename))

\* filepath.Join(outputDir, uuid, name)
Path(id, name) == <<"./output", id, name>>

\* fmt.Sprintf("%s/download/%s/<name>", baseURL, uuid)
Locator(id, name) == <<"baseURL", "download", id, name>>

\* ---------------------------------------------------------------- downloadFile
\* a download that does not report the error of io.Copy
downloadFile_CopyErrorLost(url) ==
    {[err |-> TRUE, file |-> NoFile], [err |-> FALSE, file |-> Truncated],
     [err |-> FALSE, file |-> Remote(url)]}

\* The results of downloadFile(url, path): err and what is left at path.
\* http.Get error, bad status, os.Create error: no file; io.Copy error: a
\* truncated file; success: the body the server delivered.
downloadFile(url) ==
    {[err |-> TRUE, file |-> NoFile], [err |-> TRUE, file |-> Truncated],
     [err |-> FALSE, file |-> Remote(url)]}

\* ---------------------------------------------------------------- extractIPAInfo
\* the app name chosen from the parsed Info.plist
AppNameOf(a) ==
    IF IsString(a.CFBundleDisplayName) THEN a.CFBundleDisplayName[2]
    ELSE IF IsString(a.CFBundleName) THEN a.CFBundleName[2]
    ELSE "Unknown App"

extractIPAInfo(a) ==
    IF a.kind # "zip" THEN
        [err |-> TRUE, bundleID |-> "", appName |-> ""]
    ELSE IF a.plist = "none" THEN
        [err |-> TRUE, bundleID |-> "", appName |-> ""]
    ELSE IF a.plist = "unparsable" THEN
        [err |-> TRUE, bundleID |-> "", appName |-> ""]
    ELSE IF ~IsString(a.CFBundleIdentifier) THEN
        [err |-> TRUE, bundleID |-> "", appName |-> ""]
    ELSE [err |-> FALSE, bundleID |-> a.CFBundleIdentifier[2],
          appName |-> AppNameOf(a)]

\* ---------------------------------------------------------------- ipaCache
IPAInfo(url, id, b, n, t) ==
    [OriginalURL |-> url, UUID |-> id, BundleID |-> b, AppName |-> n,
     UploadedAt |-> t]

\* time.Now() under the write lock: later stores have later times
Now(c) == Cardinality(DOMAIN c) + 1

\* a store that is left out
CacheStore_Lost(c, id, url, b, n) == c

\* a store that stamps the records it finds as well
CacheStore_Restamp(c, id, url, b, n) ==
    [i \in DOMAIN c \cup {id} |->
        IF i = id THEN IPAInfo(url, id, b, n, Now(c))
        ELSE [c[i] EXCEPT !.UploadedAt = Now(c)]]

\* ipaCache[uuidStr] = IPAInfo{...}
CacheStore(c, id, url, b, n) ==
    [i \in DOMAIN c \cup {id} |->
        IF i = id THEN IPAInfo(url, id, b, n, Now(c)) ELSE c[i]]

\* the zero value of IPAInfo, which a map lookup yields for a missing key
ZeroInfo == IPAInfo("", EmptyID, "", "", 0)

\* a lookup whose exists result is not looked at
Lookup_Unchecked(c, id) ==
    [exists |-> TRUE, info |-> IF id \in DOMAIN c THEN c[id] ELSE ZeroInfo]

\* info, exists := ipaCache[ipaUUID]
Lookup(c, id) ==
    [exists |-> id \in DOMAIN c,
     info |-> IF id \in DOMAIN c THEN c[id] ELSE ZeroInfo]

\* a lookup with the comparison inverted
CacheMatches_Inverted(c, url) == {i \in DOMAIN c : c[i].OriginalURL # url}

\* the entries at which the range loop of analyzeIPAHandler can return: Go
\* ranges over a map in an unspecified order, so it is any matching entry
CacheMatches(c, url) == {i \in DOMAIN c : c[i].OriginalURL = url}

\* ---------------------------------------------------------------- responses
NoResp == [status |-> 0, error |-> "", uuid |-> EmptyID, bundle_id |-> "",
           app_name |-> "", source_url |-> <<>>, plist_url |-> <<>>,
           ipa_url |-> <<>>, analyzed |-> FALSE, content_type |-> "",
           body |-> NoFile]

ErrResp(status, msg) == [NoResp EXCEPT !.status = status, !.error = msg]

AnalyzeOK(id, b, n) ==
    [NoResp EXCEPT !.status = 200, !.uuid = id, !.bundle_id = b,
                   !.app_name = n, !.source_url = Locator(id, "source.ipa"),
                   !.analyzed = TRUE]

ResignOK(id, b, n) ==
    [NoResp EXCEPT !.status = 200, !.uuid = id, !.bundle_id = b,
                   !.app_name = n,
                   !.plist_url = Locator(id, "manifest.plist"),
                   !.source_url = Locator(id, "source.ipa"),
                   !.ipa_url = Locator(id, "resigned.ipa")]

\* ---------------------------------------------------------------- locals
NoCmd == <<>>

\* The locals of a handler (op: which handler), and what it did on the way:
\* fresh: the index had no entry of ipaURL when the request arrived;
\* given: bundle_id and app_name as the form had them; stage: how far the
\* request got; dl, ex, runs: its downloads, extractions and signer runs;
\* exerr: its extraction failed; exit: the signer's exit status (-1: not run);
\* wrote: the signer it ran wrote its output file; filename: the file a
\* download names; fs: the os.Stat and file reads of a download
InitLoc == [op |-> "none", ipaURL |-> "", ipaUUID |-> EmptyID,
            uuidStr |-> EmptyID, bundleID |-> "", appName |-> "",
            p12Password |-> "", cmd |-> NoCmd, exit |-> -1,
            fresh |-> FALSE, given |-> <<"", "">>, stage |-> "start",
            dl |-> 0, ex |-> 0, exerr |-> FALSE, runs |-> 0,
            wrote |-> FALSE, filename |-> "", fs |-> 0]

\* what is recorded of a finished request: its locals and its response
Summary(l, r) == [loc |-> l, resp |-> r]

NoSummary == Summary(InitLoc, NoResp)
\* the clients of the concurrent service are anonymous and remember nothing
Anonymous == Summary([InitLoc EXCEPT !.op = "anonymous"], NoResp)

\* a handler returns: the response is written and the goroutine ends
Finish(p, l, r) ==
    /\ pc' = [pc EXCEPT ![p] = "idle"]
    /\ loc' = [loc EXCEPT ![p] = InitLoc]
    /\ last' = Summary(l, r)
    /\ seen' = IF seen = Anonymous THEN seen ELSE last
    /\ UNCHANGED remote

\* a handler is entered with fresh locals
Begin(p, label, l) ==
    /\ pc' = [pc EXCEPT ![p] = label]
    /\ loc' = [loc EXCEPT ![p] = l]
    /\ UNCHANGED <<last, seen, remote>>

Goto(p, label, l) ==
    /\ pc' = [pc EXCEPT ![p] = label]
    /\ loc' = [loc EXCEPT ![p] = l]
    /\ UNCHANGED <<last, seen, remote>>

\* ---------------------------------------------------------------- Init
InitService ==
    /\ ipaCache = <<>>
    /\ rlockers = {}
    /\ wlocker = 0
    /\ outputDir = <<>>
    /\ allocated = 0
    /\ pc = [p \in Procs |-> "idle"]
    /\ loc = [p \in Procs |-> InitLoc]
    /\ nreq = [analyze |-> 0, resign |-> 0, download |-> 0]
    /\ last = NoSummary

Init == InitService /\ seen = Anonymous /\ remote = Servers

\* uuid.New().String() when n UUIDs were generated before: a version 4 UUID
\* is taken to differ from all earlier ones
NewUUID(n) == n + 1

\* a return that leaves the read lock held
RUnlock_Forgotten(readers, p) == readers

\* ipaCacheLock.RUnlock() by goroutine p
RUnlock(readers, p) == readers \ {p}

\* a request is served by the first free goroutine slot
FreeSlot(p) == pc[p] = "idle" /\ \A q \in Procs : q < p => pc[q] # "idle"

\* ---------------------------------------------------------------- analyzeIPAHandler
\* main.go:199-203  ipaURL := c.PostForm("ipa_url")
A_Request(p, max) ==
    /\ FreeSlot(p)
    /\ nreq.analyze < max
    /\ nreq' = [nreq EXCEPT !.analyze = @ + 1]
    /\ \E url \in FormURLs :
         LET l == [InitLoc EXCEPT !.op = "analyze", !.ipaURL = url,
                                  !.fresh = (CacheMatches(ipaCache, url) = {})]
         IN IF url = ""
            THEN Finish(p, l, ErrResp(400, "Missing ipa_url parameter"))
            ELSE Begin(p, "a_rlock", l)
    /\ UNCHANGED <<ipaCache, rlockers, wlocker, outputDir, allocated>>

A_Start(p) == A_Request(p, MaxAnalyses)

\* main.go:206  ipaCacheLock.RLock()
A_RLock(p) ==
    /\ pc[p] = "a_rlock"
    /\ wlocker = 0
    /\ rlockers' = rlockers \cup {p}
    /\ Goto(p, "a_scan", loc[p])
    /\ UNCHANGED <<ipaCache, wlocker, outputDir, allocated, nreq>>

\* main.go:207-220  the range loop, with RUnlock on both ways out
A_Scan(p) ==
    /\ pc[p] = "a_scan"
    /\ rlockers' = RUnlock(rlockers, p)
    /\ LET hits == CacheMatches(ipaCache, loc[p].ipaURL)
       IN IF hits # {}
          THEN \E i \in hits :
                 Finish(p, loc[p],
                        AnalyzeOK(ipaCache[i].UUID, ipaCache[i].BundleID,
                                  ipaCache[i].AppName))
          ELSE Goto(p, "a_alloc", loc[p])
    /\ UNCHANGED <<ipaCache, wlocker, outputDir, allocated, nreq>>

\* main.go:222-230  uuid.New() and os.MkdirAll(workDir)
A_Alloc(p) ==
    /\ pc[p] = "a_alloc"
    /\ allocated' = allocated + 1
    /\ LET l == [loc[p] EXCEPT !.uuidStr = NewUUID(allocated)]
       IN \/ /\ outputDir' = MkdirAll(outputDir, l.uuidStr)
             /\ Goto(p, "a_download", [l EXCEPT !.stage = "allocated"])
          \/ /\ UNCHANGED outputDir
             /\ Finish(p, l, ErrResp(500, "Failed to create directory"))
    /\ UNCHANGED <<ipaCache, rlockers, wlocker, nreq>>

\* what analyzeIPAHandler does to the directory when downloadFile fails
\* (main.go:236-239: it returns, the directory stays)
AnalyzeDownloadFailed(d, id) == d

\* main.go:232-239  downloadFile(ipaURL, ipaPath)
A_Download(p) ==
    /\ pc[p] = "a_download"
    /\ \E o \in downloadFile(loc[p].ipaURL) :
         LET id == loc[p].uuidStr
             d1 == IF o.file = NoFile THEN outputDir
                   ELSE WriteFile(outputDir, id, "source", o.file)
             l == [loc[p] EXCEPT !.dl = @ + 1]
         IN IF o.err
            THEN /\ outputDir' = AnalyzeDownloadFailed(d1, id)
                 /\ Finish(p, l,
                           ErrResp(500, "Failed to download IPA file"))
            ELSE /\ outputDir' = d1
                 /\ Goto(p, "a_extract", [l EXCEPT !.stage = "source-present"])
    /\ UNCHANGED <<ipaCache, rlockers, wlocker, allocated, nreq>>

\* a handler that forgets the cleanup
AnalyzeExtractFailed_Keep(d, id) == d

\* what analyzeIPAHandler does to the directory when extractIPAInfo fails
\* (main.go:245: os.RemoveAll(workDir))
AnalyzeExtractFailed(d, id) == RemoveAll(d, id)

\* main.go:241-248  extractIPAInfo(ipaPath)
A_Extract(p) ==
    /\ pc[p] = "a_extract"
    /\ LET id == loc[p].uuidStr
           r == extractIPAInfo(outputDir[id].source)
           l == [loc[p] EXCEPT !.ex = @ + 1]
       IN IF r.err
          THEN /\ outputDir' = AnalyzeExtractFailed(outputDir, id)
               /\ Finish(p, [l EXCEPT !.exerr = TRUE],
                         ErrResp(500, "Failed to extract IPA info"))
          ELSE /\ UNCHANGED outputDir
               /\ Goto(p, "a_lock", [l EXCEPT !.bundleID = r.bundleID,
                                              !.appName = r.appName,
                                              !.stage = "metadata-known"])
    /\ UNCHANGED <<ipaCache, rlockers, wlocker, allocated, nreq>>

\* main.go:251  ipaCacheLock.Lock()
A_Lock(p) ==
    /\ pc[p] = "a_lock"
    /\ wlocker = 0
    /\ rlockers = {}
    /\ wlocker' = p
    /\ Goto(p, "a_store", loc[p])
    /\ UNCHANGED <<ipaCache, rlockers, outputDir, allocated, nreq>>

\* main.go:252-269  the store, Unlock, and the 200 response
A_Store(p) ==
    /\ pc[p] = "a_store"
    /\ LET l == loc[p]
       IN /\ ipaCache' = CacheStore(ipaCache, l.uuidStr, l.ipaURL,
                                      l.bundleID, l.appName)
          /\ wlocker' = 0
          /\ Finish(p, [l EXCEPT !.stage = "stored"],
                    AnalyzeOK(l.uuidStr, l.bundleID, l.appName))
    /\ UNCHANGED <<rlockers, outputDir, allocated, nreq>>

analyzeIPAHandler(p) ==
    \/ A_RLock(p) \/ A_Scan(p) \/ A_Alloc(p) \/ A_Download(p)
    \/ A_Extract(p) \/ A_Lock(p) \/ A_Store(p)


\* ---------------------------------------------------------------- resignHandler
\* the uploaded files of a request, told apart by the request's goroutine
Upload(p, what) == [kind |-> "upload", what |-> what, by |-> p]

\* main.go:302-305, 336, 382-385  the identity the request names
R_Request(p, max) ==
    /\ FreeSlot(p)
    /\ nreq.resign < max
    /\ nreq' = [nreq EXCEPT !.resign = @ + 1]
    /\ \E ipaUUID \in {EmptyID, UnknownID} \cup DOMAIN ipaCache,
          ipaURL \in FormURLs :
         LET l == [InitLoc EXCEPT !.op = "resign"]
         IN IF ipaUUID # EmptyID
            THEN Begin(p, "r_rlock", [l EXCEPT !.ipaUUID = ipaUUID])
            ELSE IF ipaURL # ""
            THEN Begin(p, "r_alloc", [l EXCEPT !.ipaURL = ipaURL])
            ELSE Finish(p, l,
                   ErrResp(400, "Either ipa_url or ipa_uuid must be provided"))
    /\ UNCHANGED <<ipaCache, rlockers, wlocker, outputDir, allocated>>

R_Start(p) == R_Request(p, MaxResigns)

\* main.go:307  ipaCacheLock.RLock()
R_RLock(p) ==
    /\ pc[p] = "r_rlock"
    /\ wlocker = 0
    /\ rlockers' = rlockers \cup {p}
    /\ Goto(p, "r_get", loc[p])
    /\ UNCHANGED <<ipaCache, wlocker, outputDir, allocated, nreq>>

\* main.go:324-334  a provided value wins over the stored one
Override(provided, stored) == IF provided # "" THEN provided ELSE stored

\* main.go:308-334  the lookup, RUnlock, and the resolution of the names
R_Get(p) ==
    /\ pc[p] = "r_get"
    /\ rlockers' = RUnlock(rlockers, p)
    /\ LET id == loc[p].ipaUUID
           found == Lookup(ipaCache, id)
       IN IF ~found.exists
          THEN Finish(p, loc[p], ErrResp(400, "Invalid ipa_uuid, IPA not found"))
          ELSE \E providedBundleID \in FormBundleIDs,
                  providedAppName \in FormAppNames :
                 Goto(p, "r_p12",
                      [loc[p] EXCEPT
                         !.uuidStr = id,
                         !.bundleID = Override(providedBundleID,
                                               found.info.BundleID),
                         !.appName = Override(providedAppName,
                                              found.info.AppName),
                         !.given = <<providedBundleID, providedAppName>>,
                         !.stage = "resolved"])
    /\ UNCHANGED <<ipaCache, wlocker, outputDir, allocated, nreq>>

\* main.go:337-345  uuid.New() and os.MkdirAll(workDir)
R_Alloc(p) ==
    /\ pc[p] = "r_alloc"
    /\ allocated' = allocated + 1
    /\ LET l == [loc[p] EXCEPT !.uuidStr = NewUUID(allocated)]
       IN \/ /\ outputDir' = MkdirAll(outputDir, l.uuidStr)
             /\ Goto(p, "r_download", [l EXCEPT !.stage = "allocated"])
          \/ /\ UNCHANGED outputDir
             /\ Finish(p, l, ErrResp(500, "Failed to create directory"))
    /\ UNCHANGED <<ipaCache, rlockers, wlocker, nreq>>

\* a handler that forgets the cleanup
ResignDownloadFailed_Keep(d, id) == d

\* what resignHandler does to the directory when downloadFile fails
\* (main.go:351: os.RemoveAll(workDir))
ResignDownloadFailed(d, id) == RemoveAll(d, id)

\* main.go:347-353  downloadFile(ipaURL, sourceIpaPath)
R_Download(p) ==
    /\ pc[p] = "r_download"
    /\ \E o \in downloadFile(loc[p].ipaURL) :
         LET id == loc[p].uuidStr
             d1 == IF o.file = NoFile THEN outputDir
                   ELSE WriteFile(outputDir, id, "source", o.file)
             l == [loc[p] EXCEPT !.dl = @ + 1]
         IN IF o.err
            THEN /\ outputDir' = ResignDownloadFailed(d1, id)
                 /\ Finish(p, l,
                           ErrResp(500, "Failed to download IPA file"))
            ELSE /\ outputDir' = d1
                 /\ Goto(p, "r_extract", [l EXCEPT !.stage = "source-present"])
    /\ UNCHANGED <<ipaCache, rlockers, wlocker, allocated, nreq>>

\* main.go:360-370  a name the caller left empty is filled from the archive,
\* when extractIPAInfo succeeds
Extracted(given, r, field) ==
    IF given = "" /\ ~r.err THEN r[field] ELSE given

\* main.go:355-370  the names from the form, else from the archive
R_Extract(p) ==
    /\ pc[p] = "r_extract"
    /\ \E formBundleID \in FormBundleIDs, formAppName \in FormAppNames :
         LET id == loc[p].uuidStr
             r == extractIPAInfo(outputDir[id].source)
         IN IF formBundleID = "" \/ formAppName = ""
            THEN Goto(p, "r_lock",
                      [loc[p] EXCEPT
                         !.bundleID = Extracted(formBundleID, r, "bundleID"),
                         !.appName = Extracted(formAppName, r, "appName"),
                         !.given = <<formBundleID, formAppName>>,
                         !.ex = @ + 1, !.exerr = r.err])
            ELSE Goto(p, "r_lock",
                      [loc[p] EXCEPT !.bundleID = formBundleID,
                                     !.appName = formAppName,
                                     !.given = <<formBundleID, formAppName>>])
    /\ UNCHANGED <<ipaCache, rlockers, wlocker, outputDir, allocated,
                   nreq>>

\* main.go:373  ipaCacheLock.Lock()
R_Lock(p) ==
    /\ pc[p] = "r_lock"
    /\ wlocker = 0
    /\ rlockers = {}
    /\ wlocker' = p
    /\ Goto(p, "r_store", loc[p])
    /\ UNCHANGED <<ipaCache, rlockers, outputDir, allocated, nreq>>

\* main.go:374-381  the store and Unlock
R_Store(p) ==
    /\ pc[p] = "r_store"
    /\ LET l == loc[p]
       IN /\ ipaCache' = CacheStore(ipaCache, l.uuidStr, l.ipaURL,
                                      l.bundleID, l.appName)
          /\ wlocker' = 0
          /\ Goto(p, "r_p12", [l EXCEPT !.stage = "resolved"])
    /\ UNCHANGED <<rlockers, outputDir, allocated, nreq>>

\* main.go:387-397  c.FormFile("p12") and c.SaveUploadedFile
R_P12(p) ==
    /\ pc[p] = "r_p12"
    /\ \E present \in BOOLEAN, saved \in BOOLEAN :
         IF ~present
         THEN /\ UNCHANGED outputDir
              /\ Finish(p, loc[p], ErrResp(400, "Missing p12 file"))
         ELSE IF ~saved
         THEN /\ UNCHANGED outputDir
              /\ Finish(p, loc[p], ErrResp(500, "Failed to save p12 file"))
         ELSE /\ outputDir' = WriteFile(outputDir, loc[p].uuidStr, "cert",
                                        Upload(p, "p12"))
              /\ Goto(p, "r_prof", loc[p])
    /\ UNCHANGED <<ipaCache, rlockers, wlocker, allocated, nreq>>

\* main.go:399-409  c.FormFile("mobileprovision") and c.SaveUploadedFile
R_Prof(p) ==
    /\ pc[p] = "r_prof"
    /\ \E present \in BOOLEAN, saved \in BOOLEAN :
         IF ~present
         THEN /\ UNCHANGED outputDir
              /\ Finish(p, loc[p], ErrResp(400, "Missing mobileprovision file"))
         ELSE IF ~saved
         THEN /\ UNCHANGED outputDir
              /\ Finish(p, loc[p],
                        ErrResp(500, "Failed to save mobileprovision file"))
         ELSE /\ outputDir' = WriteFile(outputDir, loc[p].uuidStr, "profile",
                                        Upload(p, "mobileprovision"))
              /\ Goto(p, "r_check", [loc[p] EXCEPT !.stage = "uploads-saved"])
    /\ UNCHANGED <<ipaCache, rlockers, wlocker, allocated, nreq>>

\* checks that forget the app name
ParamError_BundleOnly(p12Password, bundleID, appName) ==
    IF p12Password = "" THEN "Missing p12_password parameter"
    ELSE IF bundleID = "" THEN "Bundle ID and App Name must be provided"
    ELSE ""

\* checks that forget the password
ParamError_NoPassword(p12Password, bundleID, appName) ==
    IF bundleID = "" \/ appName = ""
    THEN "Bundle ID and App Name must be provided"
    ELSE ""

\* main.go:411-422  the checks before the signer, in the handler's order:
\* "" when the request may go on, else the error it is refused with
ParamError(p12Password, bundleID, appName) ==
    IF p12Password = "" THEN "Missing p12_password parameter"
    ELSE IF bundleID = "" \/ appName = ""
         THEN "Bundle ID and App Name must be provided"
    ELSE ""

\* main.go:411-422  p12_password and the required names
R_Check(p) ==
    /\ pc[p] = "r_check"
    /\ \E p12Password \in FormPasswords :
         LET l == [loc[p] EXCEPT !.p12Password = p12Password,
                                 !.stage = "password-read"]
             e == ParamError(p12Password, l.bundleID, l.appName)
         IN IF e # "" THEN Finish(p, l, ErrResp(400, e))
            ELSE Goto(p, "r_sign", [l EXCEPT !.stage = "checked"])
    /\ UNCHANGED <<ipaCache, rlockers, wlocker, outputDir, allocated,
                   nreq>>

\* a command line with the values of -b and -n exchanged
SignerCommand_Swapped(id, p12Password, bundleID, appName) ==
    <<"zsign",
      "-k", Path(id, "cert.p12"),
      "-m", Path(id, "profile.mobileprovision"),
      "-p", p12Password,
      "-b", appName,
      "-n", bundleID,
      "-o", Path(id, "resigned.ipa"),
      "-z", "9",
      Path(id, "source.ipa")>>

\* main.go:428-438  exec.Command("zsign", ...)
SignerCommand(id, p12Password, bundleID, appName) ==
    <<"zsign",
      "-k", Path(id, "cert.p12"),
      "-m", Path(id, "profile.mobileprovision"),
      "-p", p12Password,
      "-b", bundleID,
      "-n", appName,
      "-o", Path(id, "resigned.ipa"),
      "-z", "9",
      Path(id, "source.ipa")>>

\* main.go:424-440  the signer is launched
R_Sign(p) ==
    /\ pc[p] = "r_sign"
    /\ LET l == loc[p]
       IN Goto(p, "r_wait",
               [l EXCEPT !.cmd = SignerCommand(l.uuidStr, l.p12Password,
                                               l.bundleID, l.appName),
                         !.runs = @ + 1])
    /\ UNCHANGED <<ipaCache, rlockers, wlocker, outputDir, allocated,
                   nreq>>

\* what zsign leaves at its -o path when it writes its output: the archive
\* signed under the names of its -b and -n arguments
Signed(d, id, cmd) ==
    [kind |-> "signed", bundleID |-> cmd[9], appName |-> cmd[11]]

\* main.go:440-444  cmd.CombinedOutput() returns; the signer is an external
\* program: any exit status, with or without the output file written
R_SignReturn(p) ==
    /\ pc[p] = "r_wait"
    /\ \E exit \in {0, 1}, wrote \in BOOLEAN :
         LET l == [loc[p] EXCEPT !.exit = exit, !.wrote = wrote]
             id == l.uuidStr
         IN /\ outputDir' = IF wrote
                            THEN WriteFile(outputDir, id, "resigned",
                                           Signed(outputDir, id, l.cmd))
                            ELSE outputDir
            /\ IF exit # 0
               THEN Finish(p, l, ErrResp(500, "Signing failed"))
               ELSE Goto(p, "r_stat", l)
    /\ UNCHANGED <<ipaCache, rlockers, wlocker, allocated, nreq>>

\* main.go:446-450  os.Stat(outputPath)
R_Stat(p) ==
    /\ pc[p] = "r_stat"
    /\ IF ~FileExists(outputDir, loc[p].uuidStr, "resigned")
       THEN Finish(p, loc[p], ErrResp(500, "Output file was not generated"))
       ELSE Goto(p, "r_manifest", loc[p])
    /\ UNCHANGED <<ipaCache, rlockers, wlocker, outputDir, allocated,
                   nreq>>

\* main.go:23-53, 479-501  the manifest document
generatePlist(ipaURL, bundleID, appName) ==
    [kind |-> "manifest",
     assets |-> <<[kind |-> "software-package", url |-> ipaURL]>>,
     metadata |-> [bundle_identifier |-> bundleID, bundle_version |-> "1",
                   kind |-> "software", title |-> appName]]

\* main.go:452-476  manifest.plist is written and the locators returned
R_Manifest(p) ==
    /\ pc[p] = "r_manifest"
    /\ LET l == loc[p]
           id == l.uuidStr
       IN \E written \in BOOLEAN :
            IF ~written
            THEN /\ UNCHANGED outputDir
                 /\ Finish(p, l, ErrResp(500, "Failed to create plist file"))
            ELSE /\ outputDir' =
                      WriteFile(outputDir, id, "manifest",
                                generatePlist(Locator(id, "resigned.ipa"),
                                              l.bundleID, l.appName))
                 /\ Finish(p, [l EXCEPT !.stage = "manifest-ready"],
                           ResignOK(id, l.bundleID, l.appName))
    /\ UNCHANGED <<ipaCache, rlockers, wlocker, allocated, nreq>>

resignHandler(p) ==
    \/ R_RLock(p) \/ R_Get(p) \/ R_Alloc(p) \/ R_Download(p) \/ R_Extract(p)
    \/ R_Lock(p) \/ R_Store(p) \/ R_P12(p) \/ R_Prof(p) \/ R_Check(p)
    \/ R_Sign(p) \/ R_SignReturn(p) \/ R_Stat(p) \/ R_Manifest(p)

\* ---------------------------------------------------------------- downloadHandler
\* main.go:272-274  c.Param("uuid"), c.Param("filename"), filepath.Join
D_Start(p) ==
    /\ FreeSlot(p)
    /\ nreq.download < MaxDownloads
    /\ nreq' = [nreq EXCEPT !.download = @ + 1]
    /\ \E uuid \in {UnknownID} \cup DOMAIN outputDir,
          filename \in PathFilenames :
         Begin(p, "d_stat", [InitLoc EXCEPT !.op = "download",
                                            !.uuidStr = uuid,
                                            !.filename = filename])
    /\ UNCHANGED <<ipaCache, rlockers, wlocker, outputDir, allocated>>

\* main.go:276-280  os.Stat(filePath)
D_Stat(p) ==
    /\ pc[p] = "d_stat"
    /\ LET l == [loc[p] EXCEPT !.fs = @ + 1]
       IN IF ~StatFinds(outputDir, l.uuidStr, l.filename)
          THEN Finish(p, l, ErrResp(404, "File not found"))
          ELSE Goto(p, "d_file", l)
    /\ UNCHANGED <<ipaCache, rlockers, wlocker, outputDir, allocated, nreq>>

\* main.go:283-288  the Content-Type chosen by the suffix of the name
ContentType(filename) ==
    IF filename \in {"source.ipa", "resigned.ipa"}
    THEN "application/octet-stream"
    ELSE IF filename = "manifest.plist" THEN "application/xml"
    ELSE ""

\* main.go:282-291  the headers and c.File(filePath); a file that was
\* removed since os.Stat is answered 404 by http.ServeFile
D_File(p) ==
    /\ pc[p] = "d_file"
    /\ LET l == [loc[p] EXCEPT !.fs = @ + 1]
       IN IF ~StatFinds(outputDir, l.uuidStr, l.filename)
          THEN Finish(p, l, [NoResp EXCEPT !.status = 404,
                               !.content_type = ContentType(l.filename)])
          ELSE Finish(p, l,
                      [NoResp EXCEPT
                         !.status = 200,
                         !.content_type = ContentType(l.filename),
                         !.body = outputDir[l.uuidStr][FieldOf(l.filename)]])
    /\ UNCHANGED <<ipaCache, rlockers, wlocker, outputDir, allocated, nreq>>

downloadHandler(p) == D_Stat(p) \/ D_File(p)

\* ---------------------------------------------------------------- specification
\* gin runs each request in its own goroutine
Next ==
    \E p \in Procs :
        \/ A_Start(p) \/ analyzeIPAHandler(p)
        \/ R_Start(p) \/ resignHandler(p)

Spec == Init /\ [][Next]_vars

\* the steps of goroutine p that take, use and release ipaCacheLock
LockSteps(p) ==
    \/ A_RLock(p) \/ A_Scan(p) \/ A_Lock(p) \/ A_Store(p)
    \/ R_RLock(p) \/ R_Get(p) \/ R_Lock(p) \/ R_Store(p)

\* the Go scheduler runs a goroutine that stays runnable; downloads and the
\* signer are external and may never return
Fairness == \A p \in Procs : WF_vars(LockSteps(p))

\* the service with one Analyze and one Resign at the lock
NextFair ==
    \E p \in Procs :
        \/ A_Request(p, MaxPriorAnalyses) \/ analyzeIPAHandler(p)
        \/ R_Start(p) \/ resignHandler(p)

SpecFair == Init /\ [][NextFair]_vars /\ Fairness

\* the same service called by one client that awaits each response before
\* it sends the next request
AllIdle == \A q \in Procs : pc[q] = "idle"

InitSeq == InitService /\ seen = NoSummary /\ remote = Servers

NextSeq ==
    \E p \in Procs :
        \/ (AllIdle /\ A_Start(p)) \/ analyzeIPAHandler(p)
        \/ (AllIdle /\ R_Start(p)) \/ resignHandler(p)

SpecSeq == InitSeq /\ [][NextSeq]_vars

\* the service when it is only asked to sign, a second request being able
\* to name the UUID that the first one stored
NextRepeat ==
    \E p \in Procs : R_Request(p, MaxRepeats) \/ resignHandler(p)

SpecRepeat == Init /\ [][NextRepeat]_vars

\* the same service, its responses collected by one observer in the order in
\* which they were written
SpecObserved == InitSeq /\ [][NextRepeat]_vars

\* one client that awaits each response, and may sign again after a failure
NextRetry ==
    \E p \in Procs :
        \/ (AllIdle /\ A_Request(p, MaxPriorAnalyses))
        \/ analyzeIPAHandler(p)
        \/ (AllIdle /\ R_Request(p, MaxRepeats)) \/ resignHandler(p)

SpecRetry == InitSeq /\ [][NextRetry]_vars

\* one client that analyzes the archive of a server, whatever it holds
InitExtract ==
    /\ InitService
    /\ seen = NoSummary
    /\ \E a \in Documents : remote = [Servers EXCEPT !["u1"] = a]

NextExtract ==
    \E p \in Procs : (AllIdle /\ A_Start(p)) \/ analyzeIPAHandler(p)

SpecExtract == InitExtract /\ [][NextExtract]_vars

\* the service asked to sign and to hand out files
NextDownload ==
    \E p \in Procs :
        \/ R_Start(p) \/ resignHandler(p)
        \/ D_Start(p) \/ downloadHandler(p)

SpecDownload == Init /\ [][NextDownload]_vars

TypeOK ==
    /\ wlocker \in {0} \cup Procs
    /\ rlockers \subseteq Procs
    /\ allocated \in 0..(MaxAnalyses + MaxResigns)
    /\ nreq.analyze \in 0..MaxAnalyses
    /\ nreq.resign \in 0..MaxResigns
    /\ nreq.download = 0
    /\ DOMAIN ipaCache \subseteq 1..allocated
    /\ DOMAIN outputDir \subseteq 1..allocated


\* ---------------------------------------------------------------- properties
InFlight(p) == pc[p] # "idle"

\* the positions of resignHandler from the launch of the signer on
AfterLaunch == {"r_wait", "r_stat", "r_manifest"}

Records(url) == CacheMatches(ipaCache, url)

\* C1: for a URL the index does not hold yet, two Analyze calls made one
\* after the other, the first of them successful, return the same UUID, and
\* between them they download once and extract once.
C1_AnalyzeTwiceIdempotent ==
    (/\ seen.loc.op = "analyze" /\ seen.loc.fresh /\ seen.resp.status = 200
     /\ last.loc.op = "analyze" /\ last.loc.ipaURL = seen.loc.ipaURL)
    => /\ last.resp.status = 200
       /\ last.resp.uuid = seen.resp.uuid
       /\ seen.loc.dl + last.loc.dl = 1
       /\ seen.loc.ex + last.loc.ex = 1

C1_Witness ==
    /\ seen.loc.op = "analyze" /\ seen.loc.fresh /\ seen.resp.status = 200
    /\ last.loc.op = "analyze" /\ last.loc.ipaURL = seen.loc.ipaURL
    /\ last.resp.uuid = seen.resp.uuid /\ last.loc.dl = 0

\* C2: when only Analyze requests were made, concurrently or not, and all
\* of them have finished, the URL of a successful one has a single record
\* in the index.
C2_ConcurrentAnalyzeSingleRecord ==
    (/\ nreq.resign = 0 /\ \A p \in Procs : ~InFlight(p)
     /\ last.loc.op = "analyze" /\ last.resp.status = 200)
    => Cardinality(Records(last.loc.ipaURL)) = 1

\* C3: the index never holds two records of the same origin URL.
C3_OneRecordPerOrigin ==
    \A url \in URLs : Cardinality(Records(url)) <= 1

\* C4: an Analyze answered from the index returns the record of its URL
\* that was stored first.
C4_LookupReturnsFirstStored ==
    (/\ last.loc.op = "analyze" /\ last.resp.status = 200 /\ last.loc.dl = 0)
    => \A i \in Records(last.loc.ipaURL) :
          ipaCache[last.resp.uuid].UploadedAt <= ipaCache[i].UploadedAt

\* C5: an Analyze whose download failed has failed, and neither a record
\* nor a directory of the UUID it generated is left.
C5_AnalyzeDownloadFailureRollsBack ==
    (/\ last.loc.op = "analyze"
     /\ last.resp.error = "Failed to download IPA file")
    => /\ last.resp.status = 500
       /\ last.loc.uuidStr \notin DOMAIN ipaCache
       /\ last.loc.uuidStr \notin DOMAIN outputDir

\* C6: an Analyze whose extraction failed has failed, and neither a record
\* nor a directory of the UUID it generated is left.
C6_AnalyzeExtractFailureLeavesNoTrace ==
    (/\ last.loc.op = "analyze" /\ last.loc.exerr)
    => /\ last.resp.status = 500
       /\ last.resp.uuid = EmptyID
       /\ last.loc.uuidStr \notin DOMAIN ipaCache
       /\ last.loc.uuidStr \notin DOMAIN outputDir

C6_Witness ==
    /\ last.loc.op = "analyze" /\ last.loc.exerr
    /\ last.loc.stage = "source-present" /\ last.loc.uuidStr # EmptyID

\* C7: a Resign of a fresh URL whose download failed leaves neither a record
\* nor a directory of the UUID it generated; one whose extraction failed goes
\* on with the bundle id and app name of the form, and stores them.
C7_ResignFreshUrlFailures ==
    /\ (/\ last.loc.op = "resign"
        /\ last.resp.error = "Failed to download IPA file")
       => /\ last.loc.uuidStr \notin DOMAIN ipaCache
          /\ last.loc.uuidStr \notin DOMAIN outputDir
    /\ \A p \in Procs :
         (pc[p] \in {"r_lock", "r_store"} /\ loc[p].exerr)
         => /\ loc[p].bundleID = loc[p].given[1]
            /\ loc[p].appName = loc[p].given[2]
    /\ (last.loc.op = "resign" /\ last.loc.exerr)
       => /\ last.resp.error # "Failed to extract IPA info"
          /\ last.loc.uuidStr \in DOMAIN ipaCache
          /\ ipaCache[last.loc.uuidStr].BundleID = last.loc.given[1]
          /\ ipaCache[last.loc.uuidStr].AppName = last.loc.given[2]
          /\ last.loc.uuidStr \in DOMAIN outputDir

C7_Witness ==
    /\ last.loc.op = "resign" /\ last.loc.exerr
    /\ last.loc.given[1] # ""
    /\ last.loc.uuidStr \in DOMAIN ipaCache

\* the names of a finished Resign were resolved and one of them is empty
LastResignLacksName ==
    /\ last.loc.op = "resign"
    /\ last.loc.stage \in {"password-read", "checked", "manifest-ready"}
    /\ (last.loc.bundleID = "" \/ last.loc.appName = "")

\* the signer is never launched with an empty bundle id or app name
SignerGetsNames ==
    /\ \A p \in Procs :
         pc[p] \in AfterLaunch => loc[p].cmd[9] # "" /\ loc[p].cmd[11] # ""
    /\ (last.loc.op = "resign" /\ last.loc.runs > 0)
       => last.loc.cmd[9] # "" /\ last.loc.cmd[11] # ""

\* C8 as claimed: the signer never gets an empty name, and a Resign whose
\* uploads were saved and whose bundle id or app name is empty is refused
\* for the missing name.
C8_Original ==
    /\ SignerGetsNames
    /\ LastResignLacksName
       => /\ last.loc.runs = 0
          /\ last.resp.error = "Bundle ID and App Name must be provided"

\* C8 amended: the signer never gets an empty name, and a Resign whose
\* uploads were saved and whose bundle id or app name is empty never launches
\* it: it is refused for the missing password when the password is empty
\* too, and for the missing name otherwise.
C8_SignerNeverGetsEmptyName ==
    /\ SignerGetsNames
    /\ LastResignLacksName
       => /\ last.loc.runs = 0
          /\ last.resp.status = 400
          /\ last.resp.error =
               IF last.loc.p12Password = ""
               THEN "Missing p12_password parameter"
               ELSE "Bundle ID and App Name must be provided"

C8_Witness ==
    /\ last.loc.op = "resign"
    /\ last.resp.error = "Bundle ID and App Name must be provided"
    /\ last.loc.bundleID # "" /\ last.loc.appName = ""

\* C9: a Resign that read an empty p12_password is refused for it, and its
\* signer is never launched.
C9_EmptyPasswordNeverSigns ==
    /\ \A p \in Procs :
         pc[p] \in {"r_sign"} \cup AfterLaunch => loc[p].p12Password # ""
    /\ (/\ last.loc.op = "resign"
        /\ last.loc.stage \in {"password-read", "checked", "manifest-ready"}
        /\ last.loc.p12Password = "")
       => /\ last.resp.status = 400
          /\ last.resp.error = "Missing p12_password parameter"
          /\ last.loc.runs = 0
          /\ last.loc.exit = -1

C9_Witness ==
    /\ last.loc.op = "resign"
    /\ last.loc.stage = "password-read"
    /\ last.loc.p12Password = ""
    /\ last.loc.bundleID # "" /\ last.loc.appName # ""

\* the command line the signer contract prescribes for the locals l
ContractCommand(l) ==
    <<"zsign",
      "-k", <<"./output", l.uuidStr, "cert.p12">>,
      "-m", <<"./output", l.uuidStr, "profile.mobileprovision">>,
      "-p", l.p12Password,
      "-b", l.bundleID,
      "-n", l.appName,
      "-o", <<"./output", l.uuidStr, "resigned.ipa">>,
      "-z", "9",
      <<"./output", l.uuidStr, "source.ipa">>>>

\* C10: a Resign that passed the checks launches the signer once, with the
\* credential path, profile path, password, bundle id, app name, output path,
\* compression level and source path in this order; a response carries
\* locators only if the signer exited with 0 and resigned.ipa exists.
C10_SignerContract ==
    /\ \A p \in Procs :
         /\ pc[p] \in AfterLaunch
            => loc[p].runs = 1 /\ loc[p].cmd = ContractCommand(loc[p])
         /\ (InFlight(p) /\ pc[p] \notin AfterLaunch) => loc[p].runs = 0
    /\ (/\ last.loc.op = "resign"
        /\ last.loc.stage \in {"checked", "manifest-ready"})
       => last.loc.runs = 1 /\ last.loc.cmd = ContractCommand(last.loc)
    /\ (last.loc.op = "resign" /\ last.loc.stage \notin
           {"checked", "manifest-ready"})
       => last.loc.runs = 0
    /\ (last.loc.op = "resign" /\ last.resp.ipa_url # <<>>)
       => /\ last.resp.status = 200
          /\ last.loc.exit = 0
          /\ last.loc.runs = 1
          /\ FileExists(outputDir, last.resp.uuid, "resigned")
          /\ last.resp.uuid = last.loc.uuidStr
    /\ (last.loc.op = "resign" /\ last.resp.status # 200)
       => /\ last.resp.ipa_url = <<>>
          /\ last.resp.plist_url = <<>>
          /\ last.resp.source_url = <<>>

C10_Witness ==
    /\ last.loc.op = "resign"
    /\ last.loc.ipaUUID # EmptyID
    /\ last.resp.status = 200
    /\ last.resp.ipa_url # <<>>
    /\ last.loc.given = <<"", "">>

\* C11: a Resign whose signer exited with status zero without writing its
\* output file in that run fails with "Output file was not generated" and
\* returns no locator, on a first signing of a UUID and on a repeated one.
C11_MissingOutputIsRefused ==
    (/\ last.loc.op = "resign"
     /\ last.loc.exit = 0
     /\ ~last.loc.wrote)
    => /\ last.resp.status = 500
       /\ last.resp.error = "Output file was not generated"
       /\ last.resp.ipa_url = <<>>
       /\ last.resp.plist_url = <<>>
       /\ last.resp.source_url = <<>>

\* C12: a download that names a file outside the allow-list (the five
\* artifact names) is refused, and it is refused before the request touched
\* the file system.
C12_DownloadOutsideAllowList ==
    (last.loc.op = "download" /\ last.loc.filename \notin ArtifactNames)
    => /\ last.resp.status \notin {0, 200}
       /\ last.loc.fs = 0

\* a step of goroutine p while it serves a Resign that names a UUID
C13_Step(p) ==
    LET id == loc[p].ipaUUID
    IN (loc[p].op = "resign" /\ id # EmptyID /\ pc'[p] # pc[p])
       => IF id \notin DOMAIN ipaCache
          THEN /\ UNCHANGED <<ipaCache, outputDir, allocated>>
               /\ pc'[p] \in {"r_get", "idle"}
               /\ pc'[p] = "idle"
                  => /\ last'.resp =
                          ErrResp(400, "Invalid ipa_uuid, IPA not found")
                     /\ last'.loc.runs = 0
                     /\ last'.loc.dl = 0
          ELSE /\ UNCHANGED <<ipaCache, allocated>>
               /\ DOMAIN outputDir' = DOMAIN outputDir
               /\ id \in DOMAIN outputDir
               /\ outputDir'[id].source = outputDir[id].source
               /\ pc'[p] # "idle"
                  => /\ loc'[p].dl = 0
                     /\ loc'[p].uuidStr \in {EmptyID, id}
               /\ pc'[p] = "r_wait"
                  => /\ loc'[p].uuidStr = id
                     /\ loc'[p].cmd[16] = Path(id, "source.ipa")
               /\ pc'[p] = "idle" => last'.loc.dl = 0

\* C13: a Resign that names a UUID the index does not hold fails with
\* "Invalid ipa_uuid, IPA not found" and none of its steps creates a
\* directory, changes the index, saves an upload or runs the signer; a
\* Resign that names a stored UUID works in that UUID's directory on its
\* source.ipa, and neither downloads nor generates a UUID.
C13_ResignByUUID == [][\A p \in Procs : C13_Step(p)]_vars

C13_Witness ==
    /\ last.loc.op = "resign"
    /\ last.loc.ipaUUID = UnknownID
    /\ last.resp.error = "Invalid ipa_uuid, IPA not found"
    /\ ipaCache # <<>>
    /\ \E i \in DOMAIN outputDir : outputDir[i].source # NoFile

\* C14: every UUID of the index has its directory under ./output, and the
\* directory holds the complete source.ipa: a UUID whose directory is absent
\* is not in the index, so Resign does not resolve it.
C14_IndexedHasSource ==
    \A id \in DOMAIN ipaCache :
        /\ id \in DOMAIN outputDir
        /\ outputDir[id].source.kind = "zip"

C14_Witness ==
    /\ \E id \in DOMAIN ipaCache : outputDir[id].source.kind = "zip"
    /\ \E j \in 1..allocated :
         j \notin DOMAIN outputDir /\ j \notin DOMAIN ipaCache

\* a finished request that was refused
Failed(s) == s.resp.status \notin {0, 200}

\* the stages of a request at which the source.ipa of its UUID is on disk
SourceOnDisk(s) == s.loc.stage \notin {"start", "allocated"}

\* the UUID is in the index and its directory holds the source.ipa
Kept(id) ==
    /\ id \in DOMAIN ipaCache
    /\ id \in DOMAIN outputDir
    /\ outputDir[id].source.kind = "zip"

\* C15 as stated: whichever handler fails once the source.ipa of its UUID
\* is on disk, the UUID, its directory and the source.ipa are kept.
C15_Original ==
    (/\ last.loc.op \in {"analyze", "resign"}
     /\ Failed(last) /\ SourceOnDisk(last))
    => Kept(last.loc.uuidStr)

\* C15: a Resign that fails once the source.ipa of its UUID is on disk
\* leaves the UUID in the index and its directory with the source.ipa, and
\* the next Resign that names this UUID is resolved in that directory
\* without a download; an Analyze that fails at that point (its extraction
\* failed) leaves neither the directory nor a record.
C15_ResignFailureKeepsSource ==
    /\ (last.loc.op = "resign" /\ Failed(last) /\ SourceOnDisk(last))
       => Kept(last.loc.uuidStr)
    /\ (/\ seen.loc.op = "resign" /\ Failed(seen) /\ SourceOnDisk(seen)
        /\ last.loc.op = "resign" /\ last.loc.ipaUUID = seen.loc.uuidStr)
       => /\ last.loc.stage # "start"
          /\ last.loc.uuidStr = seen.loc.uuidStr
          /\ last.loc.dl = 0
          /\ last.resp.error # "Invalid ipa_uuid, IPA not found"
    /\ (last.loc.op = "analyze" /\ Failed(last) /\ SourceOnDisk(last))
       => /\ last.loc.exerr
          /\ last.loc.uuidStr \notin DOMAIN outputDir
          /\ last.loc.uuidStr \notin DOMAIN ipaCache

C15_Witness ==
    /\ seen.loc.op = "resign" /\ Failed(seen) /\ SourceOnDisk(seen)
    /\ seen.loc.ipaURL # ""
    /\ last.loc.op = "resign" /\ last.loc.ipaUUID = seen.loc.uuidStr
    /\ last.resp.status = 200
    /\ last.loc.dl = 0

\* the positions at which a handler downloads, parses the archive or waits
\* for the signer
Working == {"a_download", "a_extract", "r_download", "r_extract", "r_wait"}

\* C16: a goroutine holds the read lock only between RLock and the end of
\* its lookup, and the write lock only between Lock and the end of its
\* store; while it downloads, parses or waits for the signer it holds
\* neither, so a request that waits for the lock while a signer runs is
\* kept waiting only by a lookup or a store.
C16_LockCoversOnlyIndexAccess ==
    /\ \A p \in Procs :
         /\ p \in rlockers <=> pc[p] \in {"a_scan", "r_get"}
         /\ wlocker = p <=> pc[p] \in {"a_store", "r_store"}
         /\ pc[p] \in Working => (p \notin rlockers /\ wlocker # p)
    /\ wlocker # 0 => rlockers = {}
    /\ \A p, q \in Procs :
         (/\ pc[p] = "r_wait"
          /\ \A r \in Procs :
               pc[r] \notin {"a_scan", "r_get", "a_store", "r_store"})
         => /\ pc[q] = "a_rlock" => ENABLED A_RLock(q)
            /\ pc[q] = "r_rlock" => ENABLED R_RLock(q)
            /\ pc[q] = "a_lock" => ENABLED A_Lock(q)
            /\ pc[q] = "r_lock" => ENABLED R_Lock(q)

C16_Witness ==
    \E p, q \in Procs :
        /\ pc[p] = "r_wait"
        /\ pc[q] = "a_store"
        /\ wlocker = q

\* the app name by the stated rule: the display name when the document has
\* one, else the internal name when present, else the placeholder
StatedAppName(a) ==
    IF IsString(a.CFBundleDisplayName) THEN a.CFBundleDisplayName[2]
    ELSE IF IsString(a.CFBundleName) THEN a.CFBundleName[2]
    ELSE "Unknown App"

\* C17: an extraction from an archive whose Info.plist has a string
\* CFBundleIdentifier does not fail; its app name is the display name when
\* the document has one, else the internal name, else "Unknown App", and
\* it is never empty.
C17_AppNameFallback ==
    LET a == remote[last.loc.ipaURL]
    IN (/\ last.loc.op = "analyze" /\ last.loc.ex = 1
        /\ a.plist = "ok" /\ IsString(a.CFBundleIdentifier))
       => /\ ~last.loc.exerr
          /\ last.resp.status = 200
          /\ last.resp.app_name = StatedAppName(a)
          /\ last.resp.app_name # ""

\* C18: no step changes or removes a record the index holds, and no step of
\* a Resign that names a UUID changes the index at all, whether or not the
\* request overrides the bundle id or the app name.
C18_RecordsAreImmutable ==
    [][/\ \A id \in DOMAIN ipaCache :
            id \in DOMAIN ipaCache' /\ ipaCache'[id] = ipaCache[id]
       /\ \A p \in Procs :
            (/\ loc[p].op = "resign" /\ loc[p].ipaUUID # EmptyID
             /\ pc'[p] # pc[p])
            => ipaCache' = ipaCache]_vars

C18_Witness ==
    /\ last.loc.op = "resign"
    /\ last.loc.ipaUUID \in DOMAIN ipaCache
    /\ last.loc.given = <<"ov.bundle", "OvName">>
    /\ last.resp.status = 200
    /\ last.resp.bundle_id = "ov.bundle"
    /\ ipaCache[last.loc.ipaUUID].BundleID = "com.example.app"
    /\ ipaCache[last.loc.ipaUUID].AppName = "Display"
    /\ Cardinality(DOMAIN ipaCache) = 2

\* C20: while the signer of a request runs, cert.p12 and
\* profile.mobileprovision of its directory are the files this request
\* uploaded, whatever other requests for the same UUID do meanwhile.
C20_SignerReadsOwnUploads ==
    \A p \in Procs :
        pc[p] = "r_wait"
        => /\ loc[p].uuidStr \in DOMAIN outputDir
           /\ outputDir[loc[p].uuidStr].cert = Upload(p, "p12")
           /\ outputDir[loc[p].uuidStr].profile = Upload(p, "mobileprovision")

\* the manifest of a directory names what its resigned.ipa was signed with
ManifestMatchesSigned(dir) ==
    /\ dir.manifest.metadata.bundle_identifier = dir.resigned.bundleID
    /\ dir.manifest.metadata.title = dir.resigned.appName

\* C21: when two Resign requests of one UUID, interleaved in any way, have
\* both succeeded, each with a signer that wrote its output, the
\* manifest.plist of the directory names the bundle id and the title that
\* its resigned.ipa was last signed with, and each response returned the
\* names it signed with.
C21_ManifestMatchesSignedArchive ==
    (/\ AllIdle
     /\ seen.loc.op = "resign" /\ seen.resp.status = 200 /\ seen.loc.wrote
     /\ last.loc.op = "resign" /\ last.resp.status = 200 /\ last.loc.wrote
     /\ seen.loc.uuidStr = last.loc.uuidStr)
    => /\ ManifestMatchesSigned(outputDir[last.loc.uuidStr])
       /\ last.resp.bundle_id = last.loc.cmd[9]
       /\ last.resp.app_name = last.loc.cmd[11]
       /\ seen.resp.bundle_id = seen.loc.cmd[9]
       /\ seen.resp.app_name = seen.loc.cmd[11]

\* the record holds what extractIPAInfo yields for the archive
RecordIsExtraction(info, a) ==
    LET r == extractIPAInfo(a)
    IN /\ ~r.err
       /\ info.BundleID = r.bundleID /\ info.BundleID # ""
       /\ info.AppName = r.appName /\ info.AppName # ""

\* C22: the BundleID and AppName of every record of the index are what
\* extractIPAInfo yields for the source.ipa of the record's directory, and
\* both are non-empty; so an Analyze answered from the record that a Resign
\* stored returns the metadata of the archive itself.
C22_RecordsHoldArchiveMetadata ==
    /\ \A id \in DOMAIN ipaCache :
         /\ id \in DOMAIN outputDir
         /\ RecordIsExtraction(ipaCache[id], outputDir[id].source)
    /\ (last.loc.op = "analyze" /\ last.resp.status = 200)
       => LET r == extractIPAInfo(remote[last.loc.ipaURL])
          IN /\ last.resp.bundle_id = r.bundleID
             /\ last.resp.app_name = r.appName

\* the positions at which a goroutine waits for ipaCacheLock, and holds it
Waiting == {"a_rlock", "r_rlock", "a_lock", "r_lock"}
Holding == {"a_scan", "r_get", "a_store", "r_store"}

\* some goroutine that waits for the lock or holds it can take a step
LockCanMove ==
    (\E p \in Procs : pc[p] \in Waiting \cup Holding)
    => \E q \in Procs : pc[q] \in Waiting \cup Holding /\ ENABLED LockSteps(q)

\* C23: a goroutine that holds the read lock or the write lock releases
\* it, on the cache-hit return of the lookup loop as on every other path; a
\* goroutine that waits for the lock gets it; and in no state do the
\* goroutines at the lock all stand still.
C23_LockIsReleasedAndAcquired ==
    /\ \A p \in Procs :
         /\ (p \in rlockers) ~> (p \notin rlockers)
         /\ (wlocker = p) ~> (wlocker # p)
         /\ (pc[p] = "a_rlock") ~> (pc[p] = "a_scan" /\ p \in rlockers)
         /\ (pc[p] = "r_rlock") ~> (pc[p] = "r_get" /\ p \in rlockers)
         /\ (pc[p] = "a_lock") ~> (pc[p] = "a_store" /\ wlocker = p)
         /\ (pc[p] = "r_lock") ~> (pc[p] = "r_store" /\ wlocker = p)
    /\ []LockCanMove

C23_Witness ==
    \E p, q \in Procs :
        /\ pc[p] \in {"a_lock", "r_lock"}
        /\ pc[q] \in {"a_scan", "r_get"}
        /\ q \in rlockers
        /\ ~ENABLED LockSteps(p)

====
